---- MODULE Spec2Model ----
(***************************************************************************)
(* CyberMorph: the stage machine of CyberMorphAuto.run and the engines it  *)
(* drives (agent installer, discovery, DLP scan, sanitization, Docker      *)
(* provisioner, n8n orchestrator).                                         *)
(*                                                                         *)
(* Spec          the run from the construction of CyberMorphAuto.          *)
(* SpecPipeline  the run from line 83 of cybermorph_auto.py on, entered    *)
(*               with an initializer whose validate_all returned True.     *)
(*               CyberMorphInitializer.__init__ raises in every execution  *)
(*               (cybermorph_init.py:16-23), so Spec never gets there; the *)
(*               stages behind it are checked under SpecPipeline.          *)
(***************************************************************************)
EXTENDS Integers, Sequences, FiniteSets, TLC

\* ------------------------------------------------------------------ bounds
MaxLen == 2        \* sensitive tokens in the local files, all files together
MaxSynth == 2      \* distinct values the synthetic generator can draw per kind

\* ------------------------------------------------------- program constants
max_retries == 30      \* cybermorph_agent_installer.py:219
sleep_seconds == 10    \* cybermorph_agent_installer.py:235

Stages ==
  << "Validate", "Install-Agents", "Discover", "Classify", "Sanitize",
     "Provision-Replica", "Register-Orchestration", "Validate-Replica" >>

StageSet == { Stages[i] : i \in 1..Len(Stages) }

EmptyMap == [x \in {} |-> 0]

VARIABLES
  pc,               \* position in CyberMorphAuto.run
  exitCode,         \* value returned by run, -1 while running
  started,          \* stages started so far, in order
  stageResult,      \* per stage: PENDING, RUNNING, SUCCEEDED, FAILED_SOFT, FAILED_HARD
  allOk,            \* no external operation has failed so far
  target_host, target_user, target_key, target_password, log_level,
  config,           \* credential entry of the generated config
  target_connection, target_os,
  attempted,        \* agents whose installation sub-step was entered
  retry_count,      \* verify_agents_running: liveness rounds that failed
  elapsed,          \* verify_agents_running: time slept
  disc_keys,        \* keys of AutoDiscoveryEngine.discoveries
  files, users, services, databases, cron_jobs, env_vars, network_traffic,
  thrown,           \* discover_databases: the engines whose probe threw
  fs,               \* local files: path -> [exists, content]
  artifacts,        \* artifact name -> number of times written
  dlp_findings,     \* location -> finding record
  dlp_order,        \* insertion order of dlp_findings
  i, j,             \* loop positions (outer, inner)
  soft,             \* a per-item handler caught an error in the running stage
  synthetic_data_map,
  syn_log,          \* the running sanitize_all: one entry per synthetic value
                    \* generated for a finding, dropped when the call returns
  residual,         \* verify_sanitization saw findings in a re-scanned file
  synthetic_data,   \* what sanitize_all returned to run
  content,          \* sanitize_files: the text read from the current file
  replica,          \* provisioning steps done and what was put in the container
  workflows,        \* outcome of each workflow post
  scenario,         \* which part of the environment varies in this run
  entry_point,      \* the entry point: "auto" is CyberMorphAuto.run, "main" is
                    \* cybermorph.main
  temp_file,        \* the file save_temp_config writes: "absent" or "present"
  checks_run,       \* validate_all: the checks called so far, in order
  auth,             \* the credential validate_ssh_credentials handed to connect
  live_from,        \* the time since the start of the readiness poll from which
                    \* every agent stays live; -1: agents come and go freely
  check_fault       \* how a check of an agent that is not live ends:
                    \* "inactive" (status read) or "raises" (the channel fails)

runVars == << pc, exitCode, started, stageResult, allOk >>
argVars == << target_host, target_user, target_key, target_password, log_level >>
initVars == << config, target_connection, target_os, scenario, entry_point,
              temp_file, checks_run, auth, live_from, check_fault >>
s2Vars == << attempted, retry_count, elapsed >>
discVars == << disc_keys, files, users, services, databases, cron_jobs, env_vars,
               network_traffic, thrown >>
fsVars == << fs, artifacts >>
dlpVars == << dlp_findings, dlp_order >>
loopVars == << i, j, soft >>
sanVars == << synthetic_data_map, syn_log, residual, synthetic_data, content >>
repVars == << replica, workflows >>
engineVars == << s2Vars, discVars, fsVars, dlpVars, loopVars, sanVars, repVars >>

vars == << runVars, argVars, initVars, engineVars >>

Hosts == { "10.0.0.5", "target.local" }
LogLevels == { "DEBUG", "INFO", "WARNING", "ERROR" }

\* ----------------------------------------------------------------- inputs
\* A file's text is a sequence of tokens; the content-inspection service
\* reports one finding per token, spanning that token.
Tokens ==
  { [kind |-> "PERSON", val |-> "jane", score |-> 85],
    [kind |-> "PERSON", val |-> "bob", score |-> 40],
    [kind |-> "EMAIL", val |-> "jane@example.com", score |-> 100] }

Paths == << "/etc/hosts", "/etc/app.conf" >>
PathSet == { Paths[n] : n \in 1..Len(Paths) }

Contents == UNION { [1..n -> Tokens] : n \in 0..MaxLen }

RECURSIVE SumLen(_, _)
SumLen(f, S) ==
  IF S = {} THEN 0
  ELSE LET p == CHOOSE x \in S : TRUE IN Len(f[p]) + SumLen(f, S \ {p})

NoContent == [p \in PathSet |-> << >>]
FileSystems == { f \in [PathSet -> Contents] : SumLen(f, PathSet) <= MaxLen }

\* The environment of a run varies in one of three ways:
\*   content    any local file texts and environment rows; local file I/O works
\*   faults     local I/O and the orchestration backend may fail at any call;
\*              a file is empty or holds one token
\*   discovery  any osquery output and any database probe may fail; files are empty
\* Calls whose failure ends the run or a stage can fail in every scenario.
Scenarios == { "content", "faults", "discovery" }
OneToken == << [kind |-> "PERSON", val |-> "jane", score |-> 85] >>
FaultFileSystems == [PathSet -> { << >>, OneToken }]
FileSystemsOf(sc) ==
  IF sc = "content" THEN FileSystems
  ELSE IF sc = "faults" THEN FaultFileSystems
  ELSE { NoContent }

\* rows of process_envs
EnvRows ==
  { [name |-> "DB_PASSWORD", value |-> << >>],
    [name |-> "DB_PASSWORD", value |-> << [kind |-> "EMAIL", val |-> "jane@example.com", score |-> 100] >>],
    [name |-> "HOME", value |-> << >>],
    [name |-> "HOME", value |-> << [kind |-> "PERSON", val |-> "jane", score |-> 85] >>],
    [name |-> "HOME", value |-> << [kind |-> "EMAIL", val |-> "jane@example.com", score |-> 100] >>] }

EnvOptions ==
  { << >>,
    << [name |-> "DB_PASSWORD", value |-> << >>] >>,
    << [name |-> "DB_PASSWORD", value |-> << [kind |-> "EMAIL", val |-> "jane@example.com", score |-> 100] >>] >>,
    << [name |-> "DB_PASSWORD", value |-> << >>],
       [name |-> "HOME", value |-> << [kind |-> "PERSON", val |-> "jane", score |-> 85] >>] >>,
    \* the same variable name in the environments of two processes
    << [name |-> "HOME", value |-> << [kind |-> "PERSON", val |-> "jane", score |-> 85] >>],
       [name |-> "HOME", value |-> << [kind |-> "EMAIL", val |-> "jane@example.com", score |-> 100] >>] >> }

FileRows == [n \in 1..Len(Paths) |-> [path |-> Paths[n], size |-> 100 + n, mode |-> "0644"]]
UserRows == << [uid |-> 1000, username |-> "jane"] >>
ServiceRows == << [name |-> "sshd", state |-> "active"] >>
CronRows == << [command |-> "backup.sh"] >>

Engines == << "mysql", "postgresql", "mongodb" >>
EngineSet == { Engines[n] : n \in 1..Len(Engines) }
Catalog(e) == [db |-> "shop", tables |-> << "users" >>, engine |-> e]

ArtifactNames ==
  { "environment_blueprint.json", "sensitive_data_inventory.json",
    "synthetic_data_map.json" }

\* outcomes of a call whose exception is caught next to it
SoftFaults == IF scenario = "faults" THEN BOOLEAN ELSE { FALSE }

\* ---------------------------------------------------------- stage bookkeeping
StartStage(s) ==
  /\ started' = Append(started, s)
  /\ stageResult' = [stageResult EXCEPT ![s] = "RUNNING"]

\* run's "except Exception" handler: the error is logged and 1 is returned
RunFails(s) ==
  /\ stageResult' = [stageResult EXCEPT ![s] = "FAILED_HARD"]
  /\ pc' = "done"
  /\ exitCode' = 1

\* ------------------------------------------------------------------- Init
\* the engines before any of them has run
EngineInit ==
  /\ attempted = {}
  /\ retry_count = 0
  /\ elapsed = 0
  /\ disc_keys = {}
  /\ files = << >>
  /\ users = << >>
  /\ services = << >>
  /\ databases = EmptyMap
  /\ thrown = {}
  /\ cron_jobs = << >>
  /\ env_vars = << >>
  /\ network_traffic = "none"
  /\ artifacts = [a \in ArtifactNames |-> 0]
  /\ dlp_findings = EmptyMap
  /\ dlp_order = << >>
  /\ i = 0
  /\ j = 0
  /\ soft = FALSE
  /\ synthetic_data_map = EmptyMap
  /\ syn_log = << >>
  /\ residual = FALSE
  /\ synthetic_data = EmptyMap
  /\ content = << >>
  /\ replica = [steps |-> << >>, users |-> << >>, files |-> << >>, status |-> "none"]
  /\ workflows = << >>

InitRun ==
  /\ EngineInit
  /\ scenario = "content"
  /\ entry_point = "auto"
  /\ fs = NoContent
  /\ pc = "stage0"
  /\ exitCode = -1
  /\ started = << >>
  /\ stageResult = [s \in StageSet |-> "PENDING"]
  /\ allOk = TRUE
  /\ target_host \in Hosts
  /\ target_user \in { "admin", "root" }
  /\ target_key \in BOOLEAN
  /\ target_password \in BOOLEAN
  /\ log_level \in LogLevels
  /\ config = "none"
  /\ target_connection = "none"
  /\ target_os = "none"
  /\ temp_file = "absent"
  /\ checks_run = << >>
  /\ auth = "none"
  /\ live_from = -1
  /\ check_fault = "inactive"

\* ------------------------------------------------- stage 0: auto-config
\* generate_config testing the password before the key
generate_config_password_first ==
  IF target_password THEN "password"
  ELSE IF target_key THEN "key_file"
  ELSE "ValueError"

\* AutoConfigGenerator.generate_config: key first, then password, else ValueError
generate_config ==
  IF target_key THEN "key_file"
  ELSE IF target_password THEN "password"
  ELSE "ValueError"

Stage0AutoConfig ==
  /\ pc = "stage0"
  /\ started' = Append(started, "Validate")
  /\ IF generate_config = "ValueError"
       THEN /\ stageResult' = [stageResult EXCEPT !["Validate"] = "FAILED_HARD"]
            /\ pc' = "done"
            /\ exitCode' = 1
            /\ allOk' = FALSE
            /\ config' = config
       ELSE /\ stageResult' = [stageResult EXCEPT !["Validate"] = "RUNNING"]
            /\ pc' = "s1_save_temp"
            /\ config' = generate_config
            /\ UNCHANGED << exitCode, allOk >>
  /\ UNCHANGED << argVars, target_connection, target_os, scenario, entry_point,
                  temp_file, checks_run, auth, live_from, check_fault, engineVars >>

\* ------------------------------------- stage 1: initialization & validation
\* AutoConfigGenerator.save_temp_config: the temporary file is written, or
\* the write raises
Stage1SaveTempConfig ==
  /\ pc = "s1_save_temp"
  /\ \E written \in BOOLEAN :
       IF written
         THEN /\ pc' = "s1_construct"
              /\ temp_file' = "present"
              /\ UNCHANGED << exitCode, stageResult, allOk >>
         ELSE /\ RunFails("Validate")
              /\ allOk' = FALSE
              /\ UNCHANGED temp_file
  /\ UNCHANGED << started, argVars, config, target_connection, target_os, scenario,
                  entry_point, checks_run, auth, live_from, check_fault, engineVars >>

\* CyberMorphInitializer.__init__ calls load_config before setup_logging;
\* load_config's first statement reads self.logger, which is not yet bound.
LoggerBoundBeforeLoadConfig == FALSE

Stage1Construct ==
  /\ pc = "s1_construct"
  /\ IF LoggerBoundBeforeLoadConfig
       THEN /\ pc' = "v_config"
            /\ UNCHANGED << exitCode, stageResult >>
       ELSE RunFails("Validate")
  /\ UNCHANGED << started, allOk, argVars, initVars, engineVars >>

NextRun ==
  \/ Stage0AutoConfig
  \/ Stage1SaveTempConfig
  \/ Stage1Construct

Spec == InitRun /\ [][NextRun]_vars

\* validate_all: the six checks in the order of their calls
ValidationChecks ==
  << "validate_config", "validate_target_connectivity", "validate_target_credentials",
     "detect_target_os", "validate_replica_environment", "check_disk_space" >>

\* ----------------------------------------------------------- validate_all
\* validate_all entered on a constructed initializer: from run's stage 1
\* over the file save_temp_config wrote ("auto"), or from cybermorph.main
\* over the configuration file of the command line ("main"), whose target
\* type, connection method and replica section are the user's.
InitValidate ==
  /\ EngineInit
  /\ scenario = "content"
  /\ fs = NoContent
  /\ entry_point \in { "auto", "main" }
  /\ pc = "v_config"
  /\ exitCode = -1
  /\ started = << "Validate" >>
  /\ stageResult = [s \in StageSet |-> IF s = "Validate" THEN "RUNNING" ELSE "PENDING"]
  /\ allOk = TRUE
  /\ target_host \in Hosts
  /\ target_user = "admin"
  /\ target_key \in BOOLEAN
  /\ target_password \in BOOLEAN
  /\ log_level \in LogLevels
  /\ generate_config # "ValueError"
  /\ config = generate_config
  /\ target_connection = "none"
  /\ target_os = "none"
  /\ temp_file = IF entry_point = "auto" THEN "present" ELSE "absent"
  /\ checks_run = << >>
  /\ auth = "none"
  /\ live_from = -1
  /\ check_fault = "inactive"

\* validate_all's handler: the error is logged and False returned; run
\* raises on False and main returns 1
ValidateFails ==
  /\ RunFails("Validate")
  /\ allOk' = FALSE

\* validate_all with a handler around each call that logs and goes on
CheckContinues(name, ok, next) ==
  /\ checks_run' = Append(checks_run, name)
  /\ pc' = next
  /\ allOk' = (allOk /\ ok)
  /\ UNCHANGED << exitCode, stageResult >>

\* one of the six calls inside validate_all's try
Check(name, ok, next) ==
  /\ checks_run' = Append(checks_run, name)
  /\ IF ok THEN /\ pc' = next
                /\ UNCHANGED << exitCode, stageResult, allOk >>
     ELSE ValidateFails

\* the generated configuration has every required key, 'connection' and
\* 'cloud'; a configuration file may lack one
ValidateConfig ==
  /\ pc = "v_config"
  /\ \E ok \in (IF entry_point = "auto" THEN { TRUE } ELSE BOOLEAN) :
       Check("validate_config", ok, "v_connectivity")
  /\ UNCHANGED << started, argVars, config, target_connection, target_os, scenario,
                  entry_point, temp_file, auth, live_from, check_fault, engineVars >>

\* connect_ex to host:port returns 0 or not
ValidateTargetConnectivity ==
  /\ pc = "v_connectivity"
  /\ \E ok \in BOOLEAN : Check("validate_target_connectivity", ok, "v_credentials")
  /\ UNCHANGED << started, argVars, config, target_connection, target_os, scenario,
                  entry_point, temp_file, auth, live_from, check_fault, engineVars >>

\* the keyword validate_ssh_credentials passes to connect: key_filename when
\* the connection section has 'key_file', password otherwise
validate_ssh_credentials == IF config = "key_file" THEN "key_file" ELSE "password"

\* the connection methods a configuration can name
Methods == IF entry_point = "auto" THEN { "ssh" } ELSE { "ssh", "winrm", "other" }

\* validate_target_credentials: ssh or winrm log in and store the
\* connection, or raise ConnectionError; another method raises ValueError
ValidateTargetCredentials ==
  /\ pc = "v_credentials"
  /\ \E method \in Methods, accepted \in BOOLEAN :
       /\ Check("validate_target_credentials", method # "other" /\ accepted,
                "v_os")
       /\ auth' = IF method = "ssh" THEN validate_ssh_credentials
                  ELSE IF method = "winrm" THEN "password"
                  ELSE auth
       /\ target_connection' = IF method # "other" /\ accepted THEN method
                                ELSE target_connection
  /\ UNCHANGED << started, argVars, config, target_os, scenario, entry_point,
                  temp_file, live_from, check_fault, engineVars >>

\* the target types a configuration can name; generate_config writes 'linux'
TargetTypes == IF entry_point = "auto" THEN { "linux" } ELSE { "linux", "windows", "other" }

\* detect_target_os: the configured type, or for another type the answer to
\* uname -s over the connection ("raises": the call fails)
detect_target_os(type, uname) ==
  IF type \in { "linux", "windows" } THEN type
  ELSE IF uname = "linux" THEN "linux"
  ELSE IF uname = "darwin" THEN "macos"
  ELSE IF uname = "raises" THEN "raises"
  ELSE "unknown"

DetectTargetOs ==
  /\ pc = "v_os"
  /\ \E type \in TargetTypes, uname \in { "linux", "darwin", "sunos", "raises" } :
       LET os == detect_target_os(type, uname)
       IN /\ Check("detect_target_os", os # "raises", "v_replica")
          /\ target_os' = IF os = "raises" THEN target_os ELSE os
  /\ UNCHANGED << started, argVars, config, target_connection, scenario, entry_point,
                  temp_file, auth, live_from, check_fault, engineVars >>

\* validate_replica_environment: the cloud or on-premise credentials are
\* tested; the generated replica type 'docker' is neither, nothing is tested
ValidateReplicaEnvironment ==
  /\ pc = "v_replica"
  /\ \E ok \in (IF entry_point = "auto" THEN { TRUE } ELSE BOOLEAN) :
       Check("validate_replica_environment", ok, "v_disk")
  /\ UNCHANGED << started, argVars, config, target_connection, target_os, scenario,
                  entry_point, temp_file, auth, live_from, check_fault, engineVars >>

\* check_disk_space, then validate_all returns True and the caller goes on
\* to agent installation
CheckDiskSpace ==
  /\ pc = "v_disk"
  /\ checks_run' = Append(checks_run, "check_disk_space")
  /\ \E enough \in BOOLEAN :
       IF enough
         THEN /\ pc' = "stage2"
              /\ stageResult' = [stageResult EXCEPT !["Validate"] = "SUCCEEDED"]
              /\ UNCHANGED << exitCode, allOk >>
         ELSE ValidateFails
  /\ UNCHANGED << started, argVars, config, target_connection, target_os, scenario,
                  entry_point, temp_file, auth, live_from, check_fault, engineVars >>

\* ======================================================= the pipeline
\* run at line 83: stage 1 has stored an initializer whose validate_all
\* returned True (target_connection is the SSH client, target_os is 'linux',
\* the only type generate_config writes).
EnteredWithInitializer ==
  /\ pc = "stage2"
  /\ exitCode = -1
  /\ started = << "Validate" >>
  /\ stageResult = [s \in StageSet |-> IF s = "Validate" THEN "SUCCEEDED" ELSE "PENDING"]
  /\ allOk = TRUE
  /\ target_host = "10.0.0.5"
  /\ target_user = "admin"
  /\ target_key = TRUE
  /\ target_password = FALSE
  /\ log_level = "INFO"
  /\ config = "key_file"
  /\ target_connection = "ssh"
  /\ target_os = "linux"
  /\ temp_file = "present"
  /\ checks_run = ValidationChecks
  /\ auth = "key_file"
  /\ live_from = -1
  /\ check_fault = "inactive"
  /\ EngineInit
  /\ scenario \in Scenarios
  /\ fs \in FileSystemsOf(scenario)

InitPipeline == entry_point = "auto" /\ EnteredWithInitializer

\* ------------------------------------------------ stage 2: agent installation
\* _stage_2_agent_installation raises when install_all_agents returns False
Stage2Start ==
  /\ pc = "stage2"
  /\ StartStage("Install-Agents")
  /\ pc' = "s2_wazuh-agent"
  /\ UNCHANGED << exitCode, allOk, argVars, initVars, engineVars >>

\* install_wazuh_agent / install_osquery / install_zeek on linux: a list of
\* exec_command calls. A command that fails on the target writes to stderr,
\* which is logged at most; an exception of exec_command or of the channel
\* leaves install_all_agents through its handler (return False). windows
\* and macos have installers of the same shape; install_zeek on windows
\* only logs that it is skipped.

\* whether the installer of agent a runs commands on this OS
Installs(os, a) == ~ (a = "zeek" /\ os = "windows")

InstallAgent(a, next) ==
  /\ pc = "s2_" \o a
  /\ attempted' = attempted \cup { a }
  /\ \E raises \in BOOLEAN, stderr \in SoftFaults :
       /\ Installs(target_os, a) \/ (~ raises /\ ~ stderr)
       /\ IF raises
            THEN /\ ~ stderr
                 /\ RunFails("Install-Agents")
                 /\ allOk' = FALSE
            ELSE /\ pc' = next
                 /\ allOk' = (allOk /\ ~ stderr)
                 /\ UNCHANGED << exitCode, stageResult >>
  /\ UNCHANGED << started, argVars, initVars, retry_count, elapsed, discVars, fsVars,
                  dlpVars, loopVars, sanVars, repVars >>

InstallWazuh == InstallAgent("wazuh-agent", "s2_osquery")
InstallOsquery == InstallAgent("osquery", "s2_zeek")
InstallZeek == InstallAgent("zeek", "s2_verify")

\* what a liveness check can meet on the target at this moment
CheckOutcomes ==
  IF live_from = -1 THEN { "active", "inactive", "raises" }
  ELSE IF elapsed >= live_from THEN { "active" }
  ELSE { check_fault }

\* check_wazuh_running without its try / except
check_running_unguarded(a, os, out) ==
  IF a = "zeek" /\ os # "linux" THEN "True"
  ELSE IF os \in { "linux", "windows" }
         THEN IF out = "raises" THEN "raises"
              ELSE IF out = "active" THEN "True" ELSE "False"
  ELSE "None"

\* check_wazuh_running, check_osquery_running, check_zeek_running: on linux
\* the answer of systemctl is-active, on windows (wazuh, osquery) that of
\* Get-Service; an exception is caught and False returned. wazuh and
\* osquery have no branch for another OS and return None; zeek returns True
\* outside linux.
check_running(a, os, out) ==
  IF a = "zeek" /\ os # "linux" THEN "True"
  ELSE IF os \in { "linux", "windows" }
         THEN IF out = "raises" THEN "False"
              ELSE IF out = "active" THEN "True" ELSE "False"
  ELSE "None"

\* one round of the while loop: every check is called; an exception of a
\* check would leave the loop and install_all_agents through its handler
Round ==
  \E w \in CheckOutcomes, o \in CheckOutcomes, z \in CheckOutcomes :
    LET results == { check_running("wazuh-agent", target_os, w),
                     check_running("osquery", target_os, o),
                     check_running("zeek", target_os, z) }
    IN IF "raises" \in results
         THEN /\ RunFails("Install-Agents")
              /\ allOk' = FALSE
              /\ UNCHANGED << retry_count, elapsed >>
         ELSE IF results = { "True" }
           THEN /\ stageResult' = [stageResult EXCEPT !["Install-Agents"] = "SUCCEEDED"]
                /\ pc' = "stage3"
                /\ retry_count' = 0
                /\ elapsed' = 0
                /\ UNCHANGED << exitCode, allOk >>
           ELSE /\ retry_count' = retry_count + 1
                /\ elapsed' = elapsed + sleep_seconds
                /\ allOk' = FALSE
                /\ UNCHANGED << pc, exitCode, stageResult >>

\* verify_agents_running with the loop condition "retry_count <= max_retries"
VerifyRoundOffByOne ==
  /\ pc = "s2_verify"
  /\ retry_count <= max_retries
  /\ Round
  /\ UNCHANGED << started, argVars, initVars, attempted, discVars, fsVars,
                  dlpVars, loopVars, sanVars, repVars >>

\* verify_agents_running, one round of the while loop: the three checks,
\* then return True (the locals retry_count and elapsed end with the call),
\* or count the round and sleep
VerifyRound ==
  /\ pc = "s2_verify"
  /\ retry_count < max_retries
  /\ Round
  /\ UNCHANGED << started, argVars, initVars, attempted, discVars, fsVars,
                  dlpVars, loopVars, sanVars, repVars >>

\* _stage_2_agent_installation without the test of install_all_agents' result
VerifyTimeoutIgnored ==
  /\ pc = "s2_verify"
  /\ ~ (retry_count < max_retries)
  /\ stageResult' = [stageResult EXCEPT !["Install-Agents"] = "FAILED_HARD"]
  /\ pc' = "stage3"
  /\ UNCHANGED << exitCode, started, allOk, argVars, initVars, engineVars >>

\* the loop condition fails: RuntimeError, caught by install_all_agents
VerifyTimeout ==
  /\ pc = "s2_verify"
  /\ ~ (retry_count < max_retries)
  /\ RunFails("Install-Agents")
  /\ UNCHANGED << started, allOk, argVars, initVars, engineVars >>

\* install_all_agents alone: run from line 83 to the end of stage 2. The
\* process is sequential and every remote call and every sleep returns, so
\* a step that is enabled is eventually taken.
NextInstall ==
  \/ Stage2Start \/ InstallWazuh \/ InstallOsquery \/ InstallZeek
  \/ VerifyRound \/ VerifyTimeout

SpecInstall == InitPipeline /\ [][NextInstall]_vars /\ WF_vars(NextInstall)

\* the readiness poll on each supported OS: install_all_agents entered by
\* run (target type 'linux') or by cybermorph.main (any detected OS); from
\* live_from on every installed agent is live and stays so, before that a
\* check ends as check_fault says
SupportedOS == { "linux", "windows", "macos" }
LiveTimes == { 0, 150, 295, 300 }

InitVerify ==
  /\ EngineInit
  /\ scenario = "content"
  /\ fs = NoContent
  /\ entry_point \in { "auto", "main" }
  /\ pc = "stage2"
  /\ exitCode = -1
  /\ started = << "Validate" >>
  /\ stageResult = [s \in StageSet |-> IF s = "Validate" THEN "SUCCEEDED" ELSE "PENDING"]
  /\ allOk = TRUE
  /\ target_host = "10.0.0.5"
  /\ target_user = "admin"
  /\ target_key = TRUE
  /\ target_password = FALSE
  /\ log_level = "INFO"
  /\ config = "key_file"
  /\ target_connection = "ssh"
  /\ target_os \in (IF entry_point = "auto" THEN { "linux" } ELSE SupportedOS)
  /\ temp_file = IF entry_point = "auto" THEN "present" ELSE "absent"
  /\ checks_run = ValidationChecks
  /\ auth = "key_file"
  /\ live_from \in LiveTimes
  /\ check_fault \in { "inactive", "raises" }

SpecVerify == InitVerify /\ [][NextInstall]_vars /\ WF_vars(NextInstall)

\* the initializer in use: run from the construction of CyberMorphAuto, and
\* validate_all from a constructed initializer up to the start of agent
\* installation
NextValidate ==
  \/ NextRun
  \/ ValidateConfig \/ ValidateTargetConnectivity \/ ValidateTargetCredentials
  \/ DetectTargetOs \/ ValidateReplicaEnvironment \/ CheckDiskSpace
  \/ Stage2Start

SpecValidate == (InitRun \/ InitValidate) /\ [][NextValidate]_vars

\* ------------------------------------------------------ stage 3: discovery
\* how a stage that ran to its end is recorded
Finished == IF soft THEN "FAILED_SOFT" ELSE "SUCCEEDED"

Stage3Start ==
  /\ pc = "stage3"
  /\ StartStage("Discover")
  /\ pc' = "s3_files"
  /\ UNCHANGED << exitCode, allOk, argVars, initVars, engineVars >>

\* what the remote osqueryi call can do: print JSON rows, print something
\* json.loads rejects, or fail in exec_command
OsqueryOutcomes ==
  IF scenario = "discovery" THEN { "rows", "garbage", "raises" } ELSE { "rows", "raises" }

\* execute_osquery: the parsed rows, or [] after a JSONDecodeError
execute_osquery(out, rows) == IF out = "rows" THEN rows ELSE << >>

\* discover_all's handler logs the error and returns {}. In run,
\* _stage_3_discovery then reads discoveries['files'] of that empty dict, and
\* the KeyError ends run; main goes on with the empty dict.
DiscoverAllFails ==
  /\ allOk' = FALSE
  /\ IF entry_point = "auto"
       THEN RunFails("Discover")
       ELSE /\ stageResult' = [stageResult EXCEPT !["Discover"] = "FAILED_HARD"]
            /\ pc' = "s3_failed"
            /\ UNCHANGED exitCode

OsqueryStep(out, next) ==
  IF out = "raises"
    THEN DiscoverAllFails /\ soft' = soft
    ELSE /\ pc' = next
         /\ soft' = (soft \/ out = "garbage")
         /\ allOk' = (allOk /\ out = "rows")
         /\ UNCHANGED << exitCode, stageResult >>

DiscoverFiles ==
  /\ pc = "s3_files"
  /\ \E out \in OsqueryOutcomes :
       /\ OsqueryStep(out, "s3_users")
       /\ IF out = "raises" THEN UNCHANGED << files, disc_keys >>
          ELSE /\ files' = execute_osquery(out, FileRows)
               /\ disc_keys' = disc_keys \cup { "files" }
  /\ UNCHANGED << started, argVars, initVars, s2Vars, users, services, databases,
                  cron_jobs, env_vars, network_traffic, thrown, fsVars, dlpVars, i, j, sanVars,
                  repVars >>

DiscoverUsers ==
  /\ pc = "s3_users"
  /\ \E out \in OsqueryOutcomes :
       /\ OsqueryStep(out, "s3_services")
       /\ IF out = "raises" THEN UNCHANGED << users, disc_keys >>
          ELSE /\ users' = execute_osquery(out, UserRows)
               /\ disc_keys' = disc_keys \cup { "users" }
  /\ UNCHANGED << started, argVars, initVars, s2Vars, files, services, databases,
                  cron_jobs, env_vars, network_traffic, thrown, fsVars, dlpVars, i, j, sanVars,
                  repVars >>

DiscoverServices ==
  /\ pc = "s3_services"
  /\ \E out \in OsqueryOutcomes :
       /\ OsqueryStep(out, "s3_databases")
       /\ IF out = "raises" THEN UNCHANGED << services, disc_keys >>
          ELSE /\ services' = execute_osquery(out, ServiceRows)
               /\ disc_keys' = disc_keys \cup { "services" }
  /\ UNCHANGED << started, argVars, initVars, s2Vars, files, users, databases,
                  cron_jobs, env_vars, network_traffic, thrown, fsVars, dlpVars, i, j, sanVars,
                  repVars >>

\* the engine probes that can throw together in one run
ProbeFailures ==
  IF scenario = "discovery" THEN SUBSET EngineSet ELSE { {}, EngineSet }

\* discover_databases with one try/except around the three probes: the
\* first probe that throws ends the collection
discover_databases_one_try(throwing) ==
  LET probed == { Engines[n] : n \in { m \in 1..Len(Engines) :
                                        \A k \in 1..m : Engines[k] \notin throwing } }
  IN [e \in probed |-> Catalog(e)]

\* discover_databases: one try/except per engine; an engine whose probe
\* throws gets no entry
discover_databases(throwing) == [e \in EngineSet \ throwing |-> Catalog(e)]

DiscoverDatabases ==
  /\ pc = "s3_databases"
  /\ \E throwing \in ProbeFailures :
       /\ databases' = discover_databases(throwing)
       /\ thrown' = throwing
       /\ allOk' = (allOk /\ throwing = {})
  /\ disc_keys' = disc_keys \cup { "databases" }
  /\ pc' = "s3_cron"
  /\ UNCHANGED << exitCode, started, stageResult, argVars, initVars, s2Vars, files,
                  users, services, cron_jobs, env_vars, network_traffic, fsVars, dlpVars,
                  loopVars, sanVars, repVars >>

DiscoverCronJobs ==
  /\ pc = "s3_cron"
  /\ \E out \in OsqueryOutcomes :
       /\ OsqueryStep(out, "s3_env")
       /\ IF out = "raises" THEN UNCHANGED << cron_jobs, disc_keys >>
          ELSE /\ cron_jobs' = execute_osquery(out, CronRows)
               /\ disc_keys' = disc_keys \cup { "cron_jobs" }
  /\ UNCHANGED << started, argVars, initVars, s2Vars, files, users, services,
                  databases, env_vars, network_traffic, thrown, fsVars, dlpVars, i, j, sanVars,
                  repVars >>

\* the rows process_envs can hold on the target
EnvWorlds ==
  IF scenario = "content" THEN EnvOptions
  ELSE { << >>, << [name |-> "DB_PASSWORD", value |-> << >>] >> }

DiscoverEnvironmentVariables ==
  /\ pc = "s3_env"
  /\ \E out \in OsqueryOutcomes, rows \in EnvWorlds :
       /\ OsqueryStep(out, "s3_network")
       /\ IF out = "raises" THEN UNCHANGED << env_vars, disc_keys >>
          ELSE /\ env_vars' = execute_osquery(out, rows)
               /\ disc_keys' = disc_keys \cup { "env_vars" }
  /\ UNCHANGED << started, argVars, initVars, s2Vars, files, users, services,
                  databases, cron_jobs, network_traffic, thrown, fsVars, dlpVars, i, j, sanVars,
                  repVars >>

\* capture_network_traffic waiting for the capture to end
CaptureNetworkTrafficWaits ==
  /\ pc = "s3_network"
  /\ network_traffic' = "finished"
  /\ disc_keys' = disc_keys \cup { "network_traffic" }
  /\ pc' = "s3_save"
  /\ UNCHANGED << exitCode, started, stageResult, allOk, argVars, initVars, s2Vars,
                  files, users, services, databases, cron_jobs, env_vars, thrown, fsVars,
                  dlpVars, loopVars, sanVars, repVars >>

\* capture_network_traffic: stores the descriptor, calls nothing
CaptureNetworkTraffic ==
  /\ pc = "s3_network"
  /\ network_traffic' = "capturing"
  /\ disc_keys' = disc_keys \cup { "network_traffic" }
  /\ pc' = "s3_save"
  /\ UNCHANGED << exitCode, started, stageResult, allOk, argVars, initVars, s2Vars,
                  files, users, services, databases, cron_jobs, env_vars, thrown, fsVars,
                  dlpVars, loopVars, sanVars, repVars >>

\* save_discoveries, then discover_all returns the dict and the stage logs
\* the lengths of files, users and services
SaveDiscoveries ==
  /\ pc = "s3_save"
  /\ \E written \in BOOLEAN :
       IF written
         THEN /\ artifacts' = [artifacts EXCEPT !["environment_blueprint.json"] = @ + 1]
              /\ stageResult' = [stageResult EXCEPT !["Discover"] = Finished]
              /\ pc' = "stage4"
              /\ soft' = FALSE
              /\ UNCHANGED << exitCode, allOk >>
         ELSE /\ DiscoverAllFails
              /\ UNCHANGED << artifacts, soft >>
  /\ UNCHANGED << started, argVars, initVars, s2Vars, discVars, fs, dlpVars, i, j,
                  sanVars, repVars >>

\* ------------------------------------------------------ stage 4: DLP scan
\* analyzer.analyze(text): one result per token, in order
Analyze(text) ==
  [n \in 1..Len(text) |->
     [entity_type |-> text[n].kind, start |-> n - 1, end |-> n,
      score |-> text[n].score]]

\* the text a finding of a file covers: content[start:end]
OriginalValue(text, f) == text[f.end].val

\* dict insertion: a new key goes last, an existing key keeps its place
DictPut(order, key) ==
  IF \E n \in 1..Len(order) : order[n] = key THEN order ELSE Append(order, key)

EnvNames == { r.name : r \in EnvRows }
EnvKey(name) == "ENV:" \o name
StartsWithENV(key) == key \in { EnvKey(n) : n \in EnvNames }

\* the keywords of scan_environment_variables contained in var_name.upper()
Keywords == { "PASSWORD", "KEY", "TOKEN", "SECRET", "CREDENTIAL" }
KeywordsIn(name) == IF name = "DB_PASSWORD" THEN { "PASSWORD" } ELSE {}
SensitiveName(name) == KeywordsIn(name) \cap Keywords # {}

FileEntry(findings, size) ==
  [findings |-> findings, file_size |-> size, type |-> "ABSENT", sensitivity |-> "ABSENT"]
NameEntry ==
  [findings |-> << >>, file_size |-> -1, type |-> "CREDENTIAL", sensitivity |-> "ABSENT"]
ValueEntry(findings) ==
  [findings |-> findings, file_size |-> -1, type |-> "ABSENT", sensitivity |-> "ABSENT"]

\* AutoDLPEngine(...) is built outside scan_all's try: a failing analyzer or
\* spaCy set-up raises into run
Stage4Start ==
  /\ pc = "stage4"
  /\ started' = Append(started, "Classify")
  /\ \E built \in BOOLEAN :
       IF built
         THEN /\ stageResult' = [stageResult EXCEPT !["Classify"] = "RUNNING"]
              /\ pc' = IF files = << >> THEN "s4_databases" ELSE "s4_files"
              /\ i' = 1
              /\ UNCHANGED << exitCode, allOk >>
         ELSE /\ RunFails("Classify")
              /\ allOk' = FALSE
              /\ i' = i
  /\ UNCHANGED << argVars, initVars, s2Vars, discVars, fsVars, dlpVars, j, soft,
                  sanVars, repVars >>

\* scan_files without the try/except around a file: the exception reaches
\* scan_all's handler
ScanFileUnguarded ==
  /\ pc = "s4_files"
  /\ LET path == files[i].path
         found == Analyze(fs[path])
     IN \E raised \in SoftFaults :
          IF raised
            THEN /\ stageResult' = [stageResult EXCEPT !["Classify"] = "FAILED_HARD"]
                 /\ dlp_findings' = EmptyMap
                 /\ dlp_order' = << >>
                 /\ pc' = "stage5"
                 /\ soft' = FALSE
                 /\ allOk' = FALSE
                 /\ i' = i
            ELSE /\ IF found # << >>
                      THEN /\ dlp_findings' = (path :> FileEntry(found, Len(fs[path]))) @@ dlp_findings
                           /\ dlp_order' = DictPut(dlp_order, path)
                      ELSE UNCHANGED dlpVars
                 /\ i' = i + 1
                 /\ pc' = IF i = Len(files) THEN "s4_databases" ELSE pc
                 /\ UNCHANGED << stageResult, soft, allOk >>
  /\ UNCHANGED << exitCode, started, argVars, initVars, s2Vars, discVars, fsVars, j,
                  sanVars, repVars >>

\* scan_files, one file: open, read, analyze; any exception is caught for
\* this file alone
ScanFile ==
  /\ pc = "s4_files"
  /\ LET path == files[i].path
         found == Analyze(fs[path])
     IN \E raised \in SoftFaults :
          IF raised
            THEN /\ soft' = TRUE
                 /\ allOk' = FALSE
                 /\ UNCHANGED dlpVars
            ELSE /\ IF found # << >>
                      THEN /\ dlp_findings' = (path :> FileEntry(found, Len(fs[path]))) @@ dlp_findings
                           /\ dlp_order' = DictPut(dlp_order, path)
                      ELSE UNCHANGED dlpVars
                 /\ UNCHANGED << soft, allOk >>
  /\ i' = i + 1
  /\ pc' = IF i = Len(files) THEN "s4_databases" ELSE pc
  /\ UNCHANGED << exitCode, started, stageResult, argVars, initVars, s2Vars, discVars,
                  fsVars, j, sanVars, repVars >>

\* scan_databases taking each catalog out of the discoveries as it scans it
ScanDatabasesConsumes ==
  /\ pc = "s4_databases"
  /\ databases' = EmptyMap
  /\ pc' = IF env_vars = << >> THEN "s4_classify" ELSE "s4_env"
  /\ i' = 1
  /\ UNCHANGED << exitCode, started, stageResult, allOk, argVars, initVars, s2Vars,
                  disc_keys, files, users, services, cron_jobs, env_vars, network_traffic,
                  thrown, fsVars, dlpVars, j, soft, sanVars, repVars >>

\* scan_databases: query_mysql, query_postgresql and query_mongodb return no
\* records, so no table yields a finding
ScanDatabases ==
  /\ pc = "s4_databases"
  /\ pc' = IF env_vars = << >> THEN "s4_classify" ELSE "s4_env"
  /\ i' = 1
  /\ UNCHANGED << exitCode, started, stageResult, allOk, argVars, initVars, s2Vars,
                  discVars, fsVars, dlpVars, j, soft, sanVars, repVars >>

\* scan_all's handler: the error is logged and {} is returned;
\* _stage_4_dlp_scanning logs the length of that dict and returns it
ScanAllFails ==
  /\ stageResult' = [stageResult EXCEPT !["Classify"] = "FAILED_HARD"]
  /\ dlp_findings' = EmptyMap
  /\ dlp_order' = << >>
  /\ pc' = "stage5"
  /\ soft' = FALSE
  /\ allOk' = FALSE

\* scan_environment_variables, one variable: the name check, then the value
\* scan, which has no handler of its own
ScanEnvVar ==
  /\ pc = "s4_env"
  /\ LET name == env_vars[i].name
         key == EnvKey(name)
         found == Analyze(env_vars[i].value)
         named == IF SensitiveName(name) THEN (key :> NameEntry) @@ dlp_findings
                  ELSE dlp_findings
         namedOrder == IF SensitiveName(name) THEN DictPut(dlp_order, key) ELSE dlp_order
     IN \E raised \in BOOLEAN :
          IF raised
            THEN /\ ScanAllFails
                 /\ i' = i
            ELSE /\ dlp_findings' = IF found # << >> THEN (key :> ValueEntry(found)) @@ named
                                    ELSE named
                 /\ dlp_order' = IF found # << >> THEN DictPut(namedOrder, key) ELSE namedOrder
                 /\ i' = i + 1
                 /\ pc' = IF i = Len(env_vars) THEN "s4_classify" ELSE pc
                 /\ UNCHANGED << stageResult, soft, allOk >>
  /\ UNCHANGED << exitCode, started, argVars, initVars, s2Vars, discVars, fsVars, j,
                  sanVars, repVars >>

\* classify_findings: the first matching class of the entity types listed
\* under 'findings'
Sensitivity(entry) ==
  LET kinds == { entry.findings[n].entity_type : n \in 1..Len(entry.findings) }
  IN IF kinds \cap { "CREDENTIAL", "PASSWORD", "API_KEY" } # {} THEN "CRITICAL"
     ELSE IF kinds \cap { "PERSON", "EMAIL", "PHONE" } # {} THEN "HIGH"
     ELSE IF kinds \cap { "LOCATION", "ORGANIZATION" } # {} THEN "MEDIUM"
     ELSE "LOW"

ClassifyFindings ==
  /\ pc = "s4_classify"
  /\ dlp_findings' =
       [k \in DOMAIN dlp_findings |->
          [dlp_findings[k] EXCEPT !.sensitivity = Sensitivity(dlp_findings[k])]]
  /\ pc' = "s4_save"
  /\ UNCHANGED << exitCode, started, stageResult, allOk, argVars, initVars, s2Vars,
                  discVars, fsVars, dlp_order, loopVars, sanVars, repVars >>

\* scan_all with save_findings moved into a finally clause
SaveFindingsAlways ==
  /\ pc = "s4_save"
  /\ artifacts' = [artifacts EXCEPT !["sensitive_data_inventory.json"] = @ + 1]
  /\ \E completed \in BOOLEAN :
       IF completed
         THEN /\ stageResult' = [stageResult EXCEPT !["Classify"] = Finished]
              /\ pc' = "stage5"
              /\ soft' = FALSE
              /\ UNCHANGED << allOk, dlpVars >>
         ELSE ScanAllFails
  /\ UNCHANGED << exitCode, started, argVars, initVars, s2Vars, discVars, fs, i, j,
                  sanVars, repVars >>

\* save_findings, then scan_all returns the findings
SaveFindings ==
  /\ pc = "s4_save"
  /\ \E written \in BOOLEAN :
       IF written
         THEN /\ artifacts' = [artifacts EXCEPT !["sensitive_data_inventory.json"] = @ + 1]
              /\ stageResult' = [stageResult EXCEPT !["Classify"] = Finished]
              /\ pc' = "stage5"
              /\ soft' = FALSE
              /\ UNCHANGED << allOk, dlpVars >>
         ELSE /\ ScanAllFails
              /\ UNCHANGED artifacts
  /\ UNCHANGED << exitCode, started, argVars, initVars, s2Vars, discVars, fs, i, j,
                  sanVars, repVars >>

\* --------------------------------------------------- stage 5: sanitization
\* generate_synthetic_replacement: the Faker generator chosen by entity type;
\* n is the value Faker draws
GeneratorOf(entity_type) ==
  IF entity_type = "PERSON" THEN "name"
  ELSE IF entity_type = "EMAIL" THEN "email"
  ELSE IF entity_type = "PHONE" THEN "phone_number"
  ELSE IF entity_type = "CREDENTIAL" \/ entity_type = "PASSWORD" THEN "password"
  ELSE IF entity_type = "API_KEY" THEN "sk_sha256"
  ELSE IF entity_type = "CREDIT_CARD" THEN "credit_card_number"
  ELSE IF entity_type = "SSN" THEN "ssn"
  ELSE "SYNTHETIC_" \o entity_type

generate_synthetic_replacement(entity_type, n) ==
  [generator |-> GeneratorOf(entity_type), id |-> n]

\* '.' in file_path.split('/')[-1]
DottedNames == { "/etc/app.conf" }
DotInBasename(key) == key \in DottedNames

\* the files sanitize_files works on
SanitizedAsFile(key) == ~ StartsWithENV(key) /\ ~ DotInBasename(key)

\* env_var[4:]
VarName(key) == CHOOSE n \in EnvNames : EnvKey(n) = key

\* finding.get('type', 'UNKNOWN')
GetType(entry) == IF entry.type = "ABSENT" THEN "UNKNOWN" ELSE entry.type

\* where a loop over dlp_findings goes after item i
AfterItem(loop, after) == IF i = Len(dlp_order) THEN after ELSE loop

Stage5Start ==
  /\ pc = "stage5"
  /\ StartStage("Sanitize")
  /\ synthetic_data_map' = EmptyMap
  /\ pc' = IF dlp_order = << >> THEN "s5_databases" ELSE "s5_files"
  /\ i' = 1
  /\ j' = 1
  /\ UNCHANGED << exitCode, allOk, argVars, initVars, s2Vars, discVars, fsVars, dlpVars,
                  soft, syn_log, residual, synthetic_data, content, repVars >>

\* sanitize_files, one item of dlp_findings: skipped by its name, or opened
\* and read; an exception is caught for this file alone
SanitizeFileOpen ==
  /\ pc = "s5_files"
  /\ LET key == dlp_order[i]
     IN IF ~ SanitizedAsFile(key)
          THEN /\ i' = i + 1
               /\ pc' = AfterItem("s5_files", "s5_databases")
               /\ UNCHANGED << content, soft, allOk, j >>
          ELSE \E raised \in SoftFaults :
                 IF raised
                   THEN /\ soft' = TRUE
                        /\ allOk' = FALSE
                        /\ i' = i + 1
                        /\ pc' = AfterItem("s5_files", "s5_databases")
                        /\ UNCHANGED << content, j >>
                   ELSE /\ content' = fs[key]
                        /\ j' = 1
                        /\ pc' = IF dlp_findings[key].findings = << >> THEN "s5_write"
                                 ELSE "s5_finding"
                        /\ UNCHANGED << i, soft, allOk >>
  /\ UNCHANGED << exitCode, started, stageResult, argVars, initVars, s2Vars, discVars,
                  fsVars, dlpVars, synthetic_data_map, syn_log, residual, synthetic_data,
                  repVars >>

\* the key sanitize_files stores a finding's synthetic value under
FileMapKey(finding) == finding.entity_type

\* one finding of the current file: a synthetic value is generated and
\* stored in the map
SanitizeFinding ==
  /\ pc = "s5_finding"
  /\ LET key == dlp_order[i]
         finding == dlp_findings[key].findings[j]
     IN \E n \in 1..MaxSynth :
          LET synthetic == generate_synthetic_replacement(finding.entity_type, n)
          IN /\ synthetic_data_map' =
                  (FileMapKey(finding) :> synthetic) @@ synthetic_data_map
             /\ syn_log' = Append(syn_log,
                  [location |-> key, index |-> j, kind |-> finding.entity_type,
                   value |-> OriginalValue(content, finding),
                   mapkey |-> FileMapKey(finding), synthetic |-> synthetic])
             /\ j' = j + 1
             /\ pc' = IF j = Len(dlp_findings[key].findings) THEN "s5_write" ELSE pc
  /\ UNCHANGED << exitCode, started, stageResult, allOk, argVars, initVars, s2Vars,
                  discVars, fsVars, dlpVars, i, soft, residual, synthetic_data, content,
                  repVars >>

\* the text sanitize_files writes back
Sanitized(text) == text

\* sanitize_files storing the length of the text it wrote as the size of
\* the file in the discoveries
SanitizeFileWriteResizes ==
  /\ pc = "s5_write"
  /\ \E raised \in SoftFaults :
       IF raised
         THEN /\ soft' = TRUE
              /\ allOk' = FALSE
              /\ UNCHANGED << fs, files >>
         ELSE /\ fs' = [fs EXCEPT ![dlp_order[i]] = Sanitized(content)]
              /\ files' = [n \in 1..Len(files) |->
                             IF files[n].path = dlp_order[i]
                               THEN [files[n] EXCEPT !.size = Len(content)]
                               ELSE files[n]]
              /\ UNCHANGED << soft, allOk >>
  /\ i' = i + 1
  /\ pc' = AfterItem("s5_files", "s5_databases")
  /\ UNCHANGED << exitCode, started, stageResult, argVars, initVars, s2Vars, disc_keys,
                  users, services, databases, cron_jobs, env_vars, network_traffic, thrown,
                  artifacts, dlpVars, j, sanVars, repVars >>

SanitizeFileWrite ==
  /\ pc = "s5_write"
  /\ \E raised \in SoftFaults :
       IF raised
         THEN /\ soft' = TRUE
              /\ allOk' = FALSE
              /\ fs' = fs
         ELSE /\ fs' = [fs EXCEPT ![dlp_order[i]] = Sanitized(content)]
              /\ UNCHANGED << soft, allOk >>
  /\ i' = i + 1
  /\ pc' = AfterItem("s5_files", "s5_databases")
  /\ UNCHANGED << exitCode, started, stageResult, argVars, initVars, s2Vars, discVars,
                  artifacts, dlpVars, j, sanVars, repVars >>

\* sanitize_databases: pass
SanitizeDatabases ==
  /\ pc = "s5_databases"
  /\ pc' = IF dlp_order = << >> THEN "s5_verify" ELSE "s5_env"
  /\ i' = 1
  /\ UNCHANGED << exitCode, started, stageResult, allOk, argVars, initVars, s2Vars,
                  discVars, fsVars, dlpVars, j, soft, sanVars, repVars >>

\* sanitize_environment_variables, one item of dlp_findings
SanitizeEnvVar ==
  /\ pc = "s5_env"
  /\ LET key == dlp_order[i]
     IN IF StartsWithENV(key)
          THEN \E n \in 1..MaxSynth :
                 synthetic_data_map' =
                   (VarName(key) :> generate_synthetic_replacement(GetType(dlp_findings[key]), n))
                   @@ synthetic_data_map
          ELSE UNCHANGED synthetic_data_map
  /\ i' = i + 1
  /\ pc' = AfterItem("s5_env", "s5_verify")
  /\ UNCHANGED << exitCode, started, stageResult, allOk, argVars, initVars, s2Vars,
                  discVars, fsVars, dlpVars, j, soft, syn_log, residual, synthetic_data,
                  content, repVars >>

\* sanitize_all's handler: the error is logged and {} is returned;
\* _stage_5_sanitization logs completion and returns that dict
SanitizeAllFails ==
  /\ stageResult' = [stageResult EXCEPT !["Sanitize"] = "FAILED_HARD"]
  /\ synthetic_data' = EmptyMap
  /\ syn_log' = << >>
  /\ pc' = "stage6"
  /\ soft' = FALSE
  /\ allOk' = FALSE

\* verify_sanitization: a new AnalyzerEngine, then every discovered file is
\* read and analyzed again; findings are logged as a warning, errors of a
\* file are dropped
VerifySanitization ==
  /\ pc = "s5_verify"
  /\ \E built \in BOOLEAN,
        unreadable \in IF scenario = "faults" THEN SUBSET PathSet ELSE { {} } :
       IF built
         THEN /\ residual' =
                   \E n \in 1..Len(files) :
                     /\ files[n].path \notin unreadable
                     /\ Analyze(fs[files[n].path]) # << >>
              /\ pc' = "s5_save"
              /\ allOk' = (allOk /\ unreadable = {})
              /\ UNCHANGED << stageResult, synthetic_data, soft, syn_log >>
         ELSE /\ unreadable = {}
              /\ SanitizeAllFails
              /\ UNCHANGED residual
  /\ UNCHANGED << exitCode, started, argVars, initVars, s2Vars, discVars, fsVars,
                  dlpVars, i, j, synthetic_data_map, content, repVars >>

\* save_synthetic_data_map, then sanitize_all returns the map
SaveSyntheticDataMap ==
  /\ pc = "s5_save"
  /\ \E written \in BOOLEAN :
       IF written
         THEN /\ artifacts' = [artifacts EXCEPT !["synthetic_data_map.json"] = @ + 1]
              /\ stageResult' = [stageResult EXCEPT !["Sanitize"] = Finished]
              /\ synthetic_data' = synthetic_data_map
              /\ syn_log' = << >>
              /\ pc' = "stage6"
              /\ soft' = FALSE
              /\ UNCHANGED allOk
         ELSE /\ SanitizeAllFails
              /\ UNCHANGED artifacts
  /\ UNCHANGED << exitCode, started, argVars, initVars, s2Vars, discVars, fs, dlpVars,
                  i, j, synthetic_data_map, residual, content, repVars >>

\* ---------------------------------------------- stage 6: Docker provisioning
Did(step) == [replica EXCEPT !.steps = Append(@, step)]

\* a call of the Docker client: done, or an exception that ends run
DockerStep(raised, next, after) ==
  IF raised
    THEN /\ RunFails("Provision-Replica")
         /\ allOk' = FALSE
         /\ replica' = replica
    ELSE /\ replica' = after
         /\ pc' = next
         /\ UNCHANGED << exitCode, stageResult, allOk >>

\* DockerReplicaProvisioner(...): docker.from_env()
Stage6Start ==
  /\ pc = "stage6"
  /\ entry_point = "auto"
  /\ started' = Append(started, "Provision-Replica")
  /\ \E raised \in BOOLEAN :
       IF raised
         THEN /\ RunFails("Provision-Replica")
              /\ allOk' = FALSE
         ELSE /\ stageResult' = [stageResult EXCEPT !["Provision-Replica"] = "RUNNING"]
              /\ pc' = "s6_network"
              /\ UNCHANGED << exitCode, allOk >>
  /\ UNCHANGED << argVars, initVars, engineVars >>

CreateNetwork ==
  /\ pc = "s6_network"
  /\ \E raised \in BOOLEAN : DockerStep(raised, "s6_image", Did("network"))
  /\ UNCHANGED << started, argVars, initVars, s2Vars, discVars, fsVars, dlpVars,
                  loopVars, sanVars, workflows >>

BuildImage ==
  /\ pc = "s6_image"
  /\ \E raised \in BOOLEAN : DockerStep(raised, "s6_container", Did("image"))
  /\ UNCHANGED << started, argVars, initVars, s2Vars, discVars, fsVars, dlpVars,
                  loopVars, sanVars, workflows >>

CreateContainer ==
  /\ pc = "s6_container"
  /\ \E raised \in BOOLEAN : DockerStep(raised, "s6_deploy", Did("container"))
  /\ UNCHANGED << started, argVars, initVars, s2Vars, discVars, fsVars, dlpVars,
                  loopVars, sanVars, workflows >>

\* synthetic_data.get(path, '')
FileContentFor(path) ==
  IF path \in DOMAIN synthetic_data THEN synthetic_data[path] ELSE ""

\* _deploy_replica_data: useradd for every discovered user, then every
\* discovered file is created from the synthetic map
Deployed ==
  [replica EXCEPT
     !.steps = Append(@, "deploy"),
     !.users = [n \in 1..Len(users) |-> users[n].username],
     !.files = [n \in 1..Len(files) |->
                  [path |-> files[n].path, content |-> FileContentFor(files[n].path)]]]

DeployReplicaData ==
  /\ pc = "s6_deploy"
  /\ \E raised \in BOOLEAN : DockerStep(raised, "s6_services", Deployed)
  /\ UNCHANGED << started, argVars, initVars, s2Vars, discVars, fsVars, dlpVars,
                  loopVars, sanVars, workflows >>

\* _start_services: "db['type'] for db in discoveries.get('databases', [])"
\* iterates the engine names of the databases dict and subscripts a str with
\* 'type': TypeError as soon as the dict has one key
StartServicesTypeError == DOMAIN databases # {}

\* the TypeError is raised by the provisioner itself, with every call of
\* the Docker client answered
StartServices ==
  /\ pc = "s6_services"
  /\ \E raised \in BOOLEAN :
       IF raised \/ StartServicesTypeError
         THEN /\ RunFails("Provision-Replica")
              /\ allOk' = (allOk /\ ~ raised)
              /\ replica' = replica
         ELSE DockerStep(FALSE, "s6_info", Did("services"))
  /\ UNCHANGED << started, argVars, initVars, s2Vars, discVars, fsVars, dlpVars,
                  loopVars, sanVars, workflows >>

ContainerStates == { "running", "exited" }

\* _get_container_info, then provision_replica returns the handle
GetContainerInfo ==
  /\ pc = "s6_info"
  /\ \E raised \in BOOLEAN, status \in ContainerStates :
       IF raised
         THEN /\ status = "running"
              /\ RunFails("Provision-Replica")
              /\ allOk' = FALSE
              /\ replica' = replica
         ELSE /\ replica' = [Did("info") EXCEPT !.status = status]
              /\ stageResult' = [stageResult EXCEPT !["Provision-Replica"] = "SUCCEEDED"]
              /\ pc' = "stage7"
              /\ allOk' = (allOk /\ status = "running")
              /\ UNCHANGED exitCode
  /\ UNCHANGED << started, argVars, initVars, s2Vars, discVars, fsVars, dlpVars,
                  loopVars, sanVars, workflows >>

\* ------------------------------------------------ stage 7: n8n orchestration
Workflows == << "main", "monitoring", "alert" >>

\* run with the calls of _stage_7_n8n_setup and _stage_8_validation swapped
Stage7StartSwapped ==
  /\ pc = "stage7"
  /\ StartStage("Validate-Replica")
  /\ pc' = "s7_post"
  /\ UNCHANGED << exitCode, allOk, argVars, initVars, engineVars >>

Stage7Start ==
  /\ pc = "stage7"
  /\ StartStage("Register-Orchestration")
  /\ pc' = "s7_post"
  /\ UNCHANGED << exitCode, allOk, argVars, initVars, engineVars >>

\* _post_workflow without its handler: a connection error ends run
PostWorkflowRaises ==
  /\ pc = "s7_post"
  /\ workflows' = Append(workflows, Workflows[Len(workflows) + 1])
  /\ \E failed \in SoftFaults :
       IF failed
         THEN /\ RunFails("Register-Orchestration")
              /\ allOk' = FALSE
              /\ soft' = soft
         ELSE /\ UNCHANGED << soft, allOk, exitCode >>
              /\ IF Len(workflows) + 1 = Len(Workflows)
                   THEN /\ stageResult' = [stageResult EXCEPT !["Register-Orchestration"] =
                                             IF soft THEN "FAILED_SOFT" ELSE "SUCCEEDED"]
                        /\ pc' = "stage8"
                   ELSE UNCHANGED << stageResult, pc >>
  /\ UNCHANGED << started, argVars, initVars, s2Vars, discVars, fsVars,
                  dlpVars, i, j, sanVars, replica >>

\* _post_workflow: a status other than 201 and a connection error are both
\* logged as a warning
PostWorkflow ==
  /\ pc = "s7_post"
  /\ workflows' = Append(workflows, Workflows[Len(workflows) + 1])
  /\ \E failed \in SoftFaults :
       /\ soft' = (soft \/ failed)
       /\ allOk' = (allOk /\ ~ failed)
  /\ IF Len(workflows) + 1 = Len(Workflows)
       THEN /\ stageResult' = [stageResult EXCEPT !["Register-Orchestration"] =
                                 IF soft' THEN "FAILED_SOFT" ELSE "SUCCEEDED"]
            /\ pc' = "stage8"
       ELSE UNCHANGED << stageResult, pc >>
  /\ UNCHANGED << exitCode, started, argVars, initVars, s2Vars, discVars, fsVars,
                  dlpVars, i, j, sanVars, replica >>

\* ------------------------------------------------ stage 8: replica validation
\* validate_replica: the container is looked up, its status must be
\* 'running' and 'ssh -V' must exit with 0; an exception gives False
validate_replica(found, status, ssh_exit) ==
  found /\ status = "running" /\ ssh_exit = 0

Stage8Validate ==
  /\ pc = "stage8"
  /\ started' = Append(started, "Validate-Replica")
  /\ \E client \in BOOLEAN, found \in BOOLEAN, status \in ContainerStates,
        ssh_exit \in { 0, 1 } :
       /\ allOk' = (allOk /\ client /\ validate_replica(found, status, ssh_exit))
       /\ IF client /\ validate_replica(found, status, ssh_exit)
            THEN /\ stageResult' = [stageResult EXCEPT !["Validate-Replica"] = "SUCCEEDED"]
                 /\ exitCode' = 0
            ELSE /\ stageResult' = [stageResult EXCEPT !["Validate-Replica"] = "FAILED_HARD"]
                 /\ exitCode' = 1
  /\ pc' = "done"
  /\ soft' = FALSE
  /\ UNCHANGED << argVars, initVars, s2Vars, discVars, fsVars, dlpVars, i, j, sanVars,
                  repVars >>

NextPipeline ==
  \/ Stage2Start \/ InstallWazuh \/ InstallOsquery \/ InstallZeek
  \/ VerifyRound \/ VerifyTimeout
  \/ Stage3Start \/ DiscoverFiles \/ DiscoverUsers \/ DiscoverServices
  \/ DiscoverDatabases \/ DiscoverCronJobs \/ DiscoverEnvironmentVariables
  \/ CaptureNetworkTraffic \/ SaveDiscoveries
  \/ Stage4Start \/ ScanFile \/ ScanDatabases \/ ScanEnvVar \/ ClassifyFindings
  \/ SaveFindings
  \/ Stage5Start \/ SanitizeFileOpen \/ SanitizeFinding \/ SanitizeFileWrite
  \/ SanitizeDatabases \/ SanitizeEnvVar \/ VerifySanitization
  \/ SaveSyntheticDataMap
  \/ Stage6Start \/ CreateNetwork \/ BuildImage \/ CreateContainer
  \/ DeployReplicaData \/ StartServices \/ GetContainerInfo
  \/ Stage7Start \/ PostWorkflow
  \/ Stage8Validate

SpecPipeline == InitPipeline /\ [][NextPipeline]_vars

\* ================================================= cybermorph.main
\* main at line 41: the initializer was built and validate_all returned True.
\* main calls install_all_agents, discover_all, scan_all and sanitize_all of
\* the same engines and returns 0 behind them; its handler returns 1.
InitMain == entry_point = "main" /\ EnteredWithInitializer

\* discover_all has returned {} to main: the AutoDLPEngine and the
\* AutoSanitizationEngine are built on that dict
MainDiscoverAllReturnsEmpty ==
  /\ pc = "s3_failed"
  /\ disc_keys' = {}
  /\ files' = << >>
  /\ users' = << >>
  /\ services' = << >>
  /\ databases' = EmptyMap
  /\ cron_jobs' = << >>
  /\ env_vars' = << >>
  /\ network_traffic' = "none"
  /\ soft' = FALSE
  /\ pc' = "stage4"
  /\ UNCHANGED << exitCode, started, stageResult, allOk, argVars, initVars, s2Vars,
                  thrown, fsVars, dlpVars, i, j, sanVars, repVars >>

\* lines 67-75: the replica is announced as ready and 0 is returned
MainReturn ==
  /\ pc = "stage6"
  /\ entry_point = "main"
  /\ pc' = "done"
  /\ exitCode' = 0
  /\ UNCHANGED << started, stageResult, allOk, argVars, initVars, engineVars >>

NextMain ==
  \/ Stage2Start \/ InstallWazuh \/ InstallOsquery \/ InstallZeek
  \/ VerifyRound \/ VerifyTimeout
  \/ Stage3Start \/ DiscoverFiles \/ DiscoverUsers \/ DiscoverServices
  \/ DiscoverDatabases \/ DiscoverCronJobs \/ DiscoverEnvironmentVariables
  \/ CaptureNetworkTraffic \/ SaveDiscoveries \/ MainDiscoverAllReturnsEmpty
  \/ Stage4Start \/ ScanFile \/ ScanDatabases \/ ScanEnvVar \/ ClassifyFindings
  \/ SaveFindings
  \/ Stage5Start \/ SanitizeFileOpen \/ SanitizeFinding \/ SanitizeFileWrite
  \/ SanitizeDatabases \/ SanitizeEnvVar \/ VerifySanitization
  \/ SaveSyntheticDataMap
  \/ MainReturn

SpecMain == InitMain /\ [][NextMain]_vars

\* ================================================================ claims
Started(s) == \E n \in 1..Len(started) : started[n] = s

EndedWell(s) == stageResult[s] \in { "SUCCEEDED", "FAILED_SOFT" }

\* C1: Provision-Replica is started only if sanitize_all completed all its
\* steps without an error; a run whose sanitization failed never provisions.
C1_ProvisionOnlyAfterSanitize ==
  Started("Provision-Replica") => stageResult["Sanitize"] # "FAILED_HARD"

\* C2: when the verification re-scan finds a residual finding, sanitize_all
\* reports a failure instead of success and Provision-Replica is not started.
C2_ResidualIsFailure ==
  residual =>
    /\ stageResult["Sanitize"] \in { "RUNNING", "FAILED_HARD" }
    /\ ~ Started("Provision-Replica")

\* C3: when analyze raises while scan_all scans the environment variables,
\* Classify is a hard failure: run ends there with exit code 1 and neither
\* Sanitize nor Provision-Replica is started.
C3_AnalyzerFailureHalts ==
  [][ (pc = "s4_env" /\ stageResult'["Classify"] = "FAILED_HARD")
        => (pc' = "done" /\ exitCode' = 1) ]_vars

\* C4: a stage that ends in a hard failure is the last stage of the run and
\* run returns 1; every stage with a successor ended succeeded or soft-failed.
C4_HardFailureHalts ==
  /\ \A n \in 1..(Len(started) - 1) : EndedWell(started[n])
  /\ (pc = "done" /\ \E s \in StageSet : stageResult[s] = "FAILED_HARD") => exitCode = 1

\* C5: the stages start in the order Validate, Install-Agents, Discover,
\* Classify, Sanitize, Provision-Replica, Register-Orchestration,
\* Validate-Replica: none before its predecessor has finished, none skipped,
\* none twice.
C5_StageOrder ==
  /\ Len(started) <= Len(Stages)
  /\ \A n \in 1..Len(started) : started[n] = Stages[n]
  /\ \A n \in 1..(Len(started) - 1) : stageResult[Stages[n]] \notin { "PENDING", "RUNNING" }
  /\ \A s \in StageSet : ~ Started(s) => stageResult[s] = "PENDING"

\* C5 witness: a run that went through all eight stages and returned 0
C5_Witness == Len(started) = Len(Stages) /\ exitCode = 0

\* C6: when every external operation succeeds, run executes all stages and
\* returns exit code 0.
C6_AllOkReturnsZero == (pc = "done" /\ allOk) => exitCode = 0

SameSecret(a, b) == a.kind = b.kind /\ a.value = b.value

\* C7: within one run, findings with the same entity kind and the same
\* original value are given the same synthetic value, in one item or in
\* different items.
C7_SameSecretSameSynthetic ==
  \A a, b \in 1..Len(syn_log) :
    SameSecret(syn_log[a], syn_log[b]) => syn_log[a].synthetic = syn_log[b].synthetic

InSanitizeAll == pc \in { "s5_files", "s5_finding", "s5_write", "s5_databases", "s5_env",
                          "s5_verify", "s5_save" }

\* C8: the synthetic map is append-only during sanitize_all: a key that has a
\* synthetic value keeps that value in every later step.
C8_MapAppendOnly ==
  [][ InSanitizeAll =>
        \A k \in DOMAIN synthetic_data_map :
          k \in DOMAIN synthetic_data_map' /\ synthetic_data_map'[k] = synthetic_data_map[k] ]_vars

\* C9: two findings of the same entity kind with different original values
\* are stored under different keys of the synthetic map.
C9_KeyDistinguishesValues ==
  \A a, b \in 1..Len(syn_log) :
    (syn_log[a].kind = syn_log[b].kind /\ syn_log[a].value # syn_log[b].value)
      => syn_log[a].mapkey # syn_log[b].mapkey

\* the key under which sanitize_all would hold the synthetic value of a finding
\* of item key
HasSynthetic(key, finding) ==
  IF StartsWithENV(key) THEN VarName(key) \in DOMAIN synthetic_data
  ELSE FileMapKey(finding) \in DOMAIN synthetic_data

\* C10: after sanitize_all has returned its map, every finding of the
\* findings set, whatever item it belongs to, has a synthetic value in the map.
C10_EveryFindingMapped ==
  EndedWell("Sanitize") =>
    \A key \in DOMAIN dlp_findings :
      \A n \in 1..Len(dlp_findings[key].findings) :
        HasSynthetic(key, dlp_findings[key].findings[n])

\* C11: for every file with findings, the content sanitize_files writes back
\* differs from the content it read at the span of each finding (the original
\* text is replaced by the synthetic value).
C11_WriteReplacesFindings ==
  [][ (pc = "s5_write" /\ scenario = "content")
        => \A n \in 1..Len(dlp_findings[dlp_order[i]].findings) :
             LET finding == dlp_findings[dlp_order[i]].findings[n]
             IN fs'[dlp_order[i]][finding.end] # content[finding.end] ]_vars

RealUsernames == { users[n].username : n \in 1..Len(users) }

\* C12: no username the provisioner creates in the replica is a username
\* discovered on the target.
C12_NoRealUsernameInReplica ==
  \A n \in 1..Len(replica.users) : replica.users[n] \notin RealUsernames

\* the entity kinds an entry of the findings set records
KindsOf(entry) ==
  { entry.findings[n].entity_type : n \in 1..Len(entry.findings) }
    \cup (IF entry.type = "ABSENT" THEN {} ELSE { entry.type })

\* the environment variables, flagged by name, that scan_environment_variables
\* has gone past
ScannedSensitive ==
  { env_vars[n].name : n \in { m \in 1..Len(env_vars) :
      /\ SensitiveName(env_vars[m].name)
      /\ \/ pc = "s4_env" /\ m < i
         \/ pc \in { "s4_classify", "s4_save" } } }

\* C13: every environment variable whose name contains one of the keywords
\* has a CREDENTIAL finding in the findings set once it has been scanned,
\* whatever the scan of its value returned.
C13_NameHeuristicKept ==
  \A name \in ScannedSensitive :
    /\ EnvKey(name) \in DOMAIN dlp_findings
    /\ "CREDENTIAL" \in KindsOf(dlp_findings[EnvKey(name)])

Severity(kind) ==
  IF kind \in { "CREDENTIAL", "PASSWORD", "API_KEY" } THEN 3
  ELSE IF kind \in { "PERSON", "EMAIL", "PHONE" } THEN 2
  ELSE IF kind \in { "LOCATION", "ORGANIZATION" } THEN 1
  ELSE 0

Level(n) == << "LOW", "MEDIUM", "HIGH", "CRITICAL" >>[n + 1]

MaxSeverity(kinds) ==
  IF kinds = {} THEN 0
  ELSE CHOOSE n \in 0..3 :
         /\ \E k \in kinds : Severity(k) = n
         /\ \A k \in kinds : Severity(k) <= n

\* C14: after classify_findings every entry's sensitivity is the maximum
\* severity of the entity kinds found for the item; an item with only the
\* CREDENTIAL of the name heuristic is CRITICAL.
C14_SensitivityIsMaximum ==
  pc = "s4_save" =>
    \A k \in DOMAIN dlp_findings :
      dlp_findings[k].sensitivity = Level(MaxSeverity(KindsOf(dlp_findings[k])))

\* C15: after sanitize_environment_variables every environment variable
\* flagged by the name heuristic is mapped, under its name, to a value of the
\* password generator, whatever the scan of its value returned.
C15_FlaggedGetsPassword ==
  (pc \in { "s5_verify", "s5_save" } /\ EndedWell("Classify")) =>
    \A n \in 1..Len(env_vars) :
      SensitiveName(env_vars[n].name) =>
        /\ env_vars[n].name \in DOMAIN synthetic_data_map
        /\ synthetic_data_map[env_vars[n].name].generator = "password"

\* C16: with agents that never become live, verify_agents_running raises
\* after exactly max_retries rounds and max_retries * sleep_seconds = 300
\* units of sleep, never earlier, and the loop always ends.
C16_BoundedReadinessPoll ==
  /\ [](pc = "s2_verify" =>
          retry_count <= max_retries /\ elapsed = retry_count * sleep_seconds)
  /\ [][ (pc = "s2_verify" /\ stageResult'["Install-Agents"] = "FAILED_HARD")
           => (retry_count = max_retries /\ elapsed = 300) ]_vars
  /\ ((pc = "s2_verify") ~> (pc # "s2_verify"))

\* C16 witness: the poll has raised after 30 rounds and 300 units
C16_Witness ==
  /\ stageResult["Install-Agents"] = "FAILED_HARD"
  /\ retry_count = 30
  /\ elapsed = 300

AllAgents == { "wazuh-agent", "osquery", "zeek" }

\* C17: the failure of one agent's installation sub-step does not end the
\* stage: Install-Agents ends in a hard failure only from the readiness poll,
\* after all three sub-steps were run.
C17_InstallFailureTolerated ==
  stageResult["Install-Agents"] = "FAILED_HARD" =>
    (attempted = AllAgents /\ retry_count = max_retries)

\* C18: when the readiness poll times out, Install-Agents is a hard failure,
\* run returns 1 and no later stage is started.
C18_PollTimeoutHalts ==
  /\ [][ (pc = "s2_verify" /\ ~ (retry_count < max_retries))
           => /\ stageResult'["Install-Agents"] = "FAILED_HARD"
              /\ pc' = "done"
              /\ exitCode' = 1 ]_vars
  /\ [](stageResult["Install-Agents"] = "FAILED_HARD" =>
          /\ started = << "Validate", "Install-Agents" >>
          /\ pc = "done"
          /\ exitCode = 1)

\* C18 witness: the run has ended on the timeout of the poll
C18_Witness ==
  /\ pc = "done"
  /\ exitCode = 1
  /\ attempted = AllAgents
  /\ retry_count = max_retries
  /\ started = << "Validate", "Install-Agents" >>

\* C19: whatever engine probes throw, the databases map holds exactly the
\* engines whose probe did not throw, each with its own catalog, and the
\* discovery steps behind discover_databases still run.
C19_PartialDatabases ==
  /\ []("databases" \in disc_keys =>
          /\ DOMAIN databases = EngineSet \ thrown
          /\ \A e \in DOMAIN databases : databases[e] = Catalog(e))
  /\ [][ (pc = "s3_databases") =>
           /\ pc' = "s3_cron"
           /\ UNCHANGED << files, users, services >> ]_vars

\* C19 witness: the postgresql probe threw, the other two are in the map and
\* the cron jobs were collected afterwards
C19_Witness ==
  /\ thrown = { "postgresql" }
  /\ DOMAIN databases = { "mysql", "mongodb" }
  /\ "cron_jobs" \in disc_keys

CategoryAt ==
  [s3_files |-> "files", s3_users |-> "users", s3_services |-> "services",
   s3_cron |-> "cron_jobs", s3_env |-> "env_vars"]

\* C20: when the query of one category fails, by unparsable output or by the
\* remote command raising, discover_all records the category (as empty) and
\* goes on: the inventory keeps every category collected before.
C20_CategoryFailureTolerated ==
  [][ (pc \in { "s3_files", "s3_users", "s3_services", "s3_cron", "s3_env" })
        => /\ pc' # "done"
           /\ disc_keys' = disc_keys \cup { CategoryAt[pc] } ]_vars

DiscoveryQueries == { "s3_files", "s3_users", "s3_services", "s3_cron", "s3_env" }

\* C21: when the remote query channel fails during discover_all, the caller
\* gets an error (the run ends with exit code 1): discover_all does not hand
\* an empty inventory to its caller, and the caller does not go on with one.
C21_QueryFailureReachesCaller ==
  [][ (pc \in DiscoveryQueries /\ stageResult'["Discover"] = "FAILED_HARD")
        => (pc' = "done" /\ exitCode' = 1) ]_vars

\* the fields of the inventory that are not payload
NonContent ==
  << files, users, services, cron_jobs, DOMAIN databases,
     [n \in 1..Len(env_vars) |-> env_vars[n].name] >>

\* C22: sanitize_all leaves the non-content fields of every inventory item
\* (path, size, mode, user ids) as discover_all produced them.
C22_SanitizeKeepsStructure ==
  [][ (pc = "stage5" \/ InSanitizeAll) => UNCHANGED NonContent ]_vars

\* C22 witness: sanitize_all has returned after it rewrote /etc/hosts
C22_Witness ==
  /\ EndedWell("Sanitize")
  /\ "/etc/hosts" \in DOMAIN dlp_findings
  /\ files = FileRows

\* the acceptance threshold (percent); the specification leaves its value to
\* the configuration
AcceptanceThreshold == 50

\* C23: no finding with a confidence score below the acceptance threshold is
\* in the findings set scan_all returns.
C23_BelowThresholdDiscarded ==
  EndedWell("Classify") =>
    \A key \in DOMAIN dlp_findings :
      \A n \in 1..Len(dlp_findings[key].findings) :
        dlp_findings[key].findings[n].score >= AcceptanceThreshold

ArtifactOf ==
  [ s3_save |-> [name |-> "environment_blueprint.json", stage |-> "Discover"],
    s4_save |-> [name |-> "sensitive_data_inventory.json", stage |-> "Classify"],
    s5_save |-> [name |-> "synthetic_data_map.json", stage |-> "Sanitize"] ]

C25_CaptureNotAwaited ==
  /\ []("network_traffic" \in disc_keys => network_traffic = "capturing")
  /\ [][ (pc = "s3_network") => (pc' = "s3_save" /\ network_traffic' = "capturing") ]_vars
  /\ [][ (network_traffic = "capturing") => UNCHANGED network_traffic ]_vars

\* C25 witness: a run that returned 0 with the capture still 'capturing'
C25_Witness ==
  /\ pc = "done"
  /\ exitCode = 0
  /\ network_traffic = "capturing"

InScanAll == pc \in { "stage4", "s4_files", "s4_databases", "s4_env", "s4_classify", "s4_save" }

\* C26: scan_all never adds, removes or changes an entry of the discoveries.
C26_ClassifyReadsOnly ==
  [][ InScanAll =>
        UNCHANGED << disc_keys, files, users, services, databases, cron_jobs, env_vars,
                     network_traffic >> ]_vars

\* C26 witness: scan_all has returned findings, with every database probe
\* answered
C26_Witness ==
  /\ EndedWell("Classify")
  /\ DOMAIN dlp_findings # {}
  /\ DOMAIN databases = EngineSet

ProvisionSteps == << "network", "image", "container", "deploy", "services", "info" >>

InProvision == pc \in { "s6_network", "s6_image", "s6_container", "s6_deploy",
                        "s6_services", "s6_info" }

\* C28: with a Docker daemon that answers every call, provision_replica
\* completes all its steps for every inventory discover_all can return, and
\* returns the handle.
C28_ProvisionCompletes ==
  (allOk /\ Started("Provision-Replica") /\ ~ InProvision) =>
    /\ replica.steps = ProvisionSteps
    /\ stageResult["Provision-Replica"] = "SUCCEEDED"

\* C29: a workflow that cannot be registered is a soft failure: the next
\* workflow is posted, Register-Orchestration does not fail, and the run goes
\* on to Validate-Replica.
C29_WorkflowFailureIsSoft ==
  [][ (pc = "s7_post") =>
        /\ workflows' = Append(workflows, Workflows[Len(workflows) + 1])
        /\ stageResult'["Register-Orchestration"] \in { "RUNNING", "SUCCEEDED", "FAILED_SOFT" }
        /\ pc' = IF Len(workflows') = Len(Workflows) THEN "stage8" ELSE "s7_post"
        /\ UNCHANGED exitCode ]_vars

\* C29 witness: a run that returned 0 although a workflow was not registered
C29_Witness ==
  /\ exitCode = 0
  /\ stageResult["Register-Orchestration"] = "FAILED_SOFT"
  /\ Len(workflows) = Len(Workflows)

MainStages == { "Validate", "Install-Agents", "Discover", "Classify", "Sanitize" }

\* C30: cybermorph.main returns 1 when one of Initialization, Agent
\* Installation, Discovery, DLP or Sanitization failed, and returns 0 only
\* when all of them succeeded.
C30_MainExitCode ==
  pc = "done" =>
    (exitCode = 0 <=> \A s \in MainStages : EndedWell(s))

\* C31: two distinct inventory items never share a findings key, so once the
\* scan is over every environment record whose value holds sensitive text
\* has its own findings recorded under its key, also when two processes
\* carry a variable of the same name.
C31_ItemsNeverShareKey ==
  pc = "s4_classify" =>
    \A n \in 1..Len(env_vars) :
      Analyze(env_vars[n].value) # << >> =>
        /\ EnvKey(env_vars[n].name) \in DOMAIN dlp_findings
        /\ dlp_findings[EnvKey(env_vars[n].name)].findings = Analyze(env_vars[n].value)

\* C32: with neither a key file nor a password, generate_config raises, run
\* returns 1 and nothing is sent to the target (no check of validate_all
\* runs, no login is tried); with both, the configuration holds the key
\* file only and no login ever uses the password.
C32_CredentialChoice ==
  /\ (entry_point = "auto" /\ ~ target_key /\ ~ target_password /\ pc # "stage0") =>
       /\ pc = "done" /\ exitCode = 1
       /\ config = "none" /\ checks_run = << >>
       /\ auth = "none" /\ target_connection = "none"
  /\ (entry_point = "auto" /\ target_key /\ target_password) =>
       /\ config \in { "none", "key_file" }
       /\ auth \in { "none", "key_file" }

\* both credentials were supplied and the login with the key was accepted
C32_Witness ==
  /\ entry_point = "auto" /\ target_key /\ target_password
  /\ auth = "key_file" /\ target_connection = "ssh"

\* C33: verify_agents_running raises only when the agents are not all live
\* at the deadline: if every agent is live from some time before 300 on
\* (here on linux), the poll does not end in a failure.
C33_LiveBeforeDeadlineSucceeds ==
  [][ (pc = "s2_verify" /\ target_os = "linux" /\ live_from < 300)
        => stageResult'["Install-Agents"] # "FAILED_HARD" ]_vars

\* C34: on each supported OS, when every installed agent is running from
\* the start, the first liveness round of verify_agents_running succeeds.
C34_FirstRoundSucceeds ==
  [][ (pc = "s2_verify" /\ target_os \in SupportedOS /\ live_from = 0
         /\ retry_count = 0)
        => (pc' = "stage3" /\ stageResult'["Install-Agents"] = "SUCCEEDED") ]_vars

\* C35: a liveness check that raises counts as "not live" for its round:
\* the round is counted and the poll goes on, and the poll is left only
\* with all agents live or with the attempt limit reached.
C35_RaisingCheckIsNotLive ==
  /\ [][ (pc = "s2_verify" /\ retry_count < max_retries /\ elapsed < live_from
           /\ check_fault = "raises")
          => (pc' = "s2_verify" /\ retry_count' = retry_count + 1
              /\ exitCode' = exitCode) ]_vars
  /\ [][ (pc = "s2_verify" /\ pc' # "s2_verify")
          => \/ (pc' = "stage3" /\ elapsed >= live_from)
             \/ (pc' = "done" /\ retry_count = max_retries) ]_vars

\* checks raised for some rounds, then the agents came up and the poll
\* returned True
C35_Witness ==
  /\ check_fault = "raises" /\ live_from = 150 /\ target_os = "linux"
  /\ pc = "stage3" /\ stageResult["Install-Agents"] = "SUCCEEDED"

\* C36: constructing CyberMorphInitializer over the readable, well-formed
\* file that save_temp_config wrote completes without error: the run goes
\* on to validate_all with target_connection and target_os still unset.
C36_ConstructionCompletes ==
  [][ (pc = "s1_construct" /\ temp_file = "present")
        => (pc' = "v_config" /\ exitCode' = -1
            /\ target_connection' = "none" /\ target_os' = "none") ]_vars

\* C38: the temporary configuration file does not outlive the run: when run
\* has returned, the file save_temp_config created has been removed.
C38_TempFileRemoved == (pc = "done" /\ exitCode \in { 0, 1 }) => temp_file = "absent"

\* C37: validate_all calls its six checks in the fixed order; a failing
\* check ends the call with False and no later check runs; when it has
\* returned True all six have run, target_connection is an established
\* connection and target_os is set, so agent installation never starts
\* without both.
C37_ValidateAllInOrder ==
  /\ [](/\ Len(checks_run) <= Len(ValidationChecks)
        /\ \A n \in 1..Len(checks_run) : checks_run[n] = ValidationChecks[n])
  /\ [][ checks_run' # checks_run
          => /\ stageResult["Validate"] = "RUNNING"
             /\ checks_run' = Append(checks_run, ValidationChecks[Len(checks_run) + 1])
             /\ (stageResult'["Validate"] = "FAILED_HARD" => exitCode' = 1) ]_vars
  /\ []((stageResult["Validate"] = "FAILED_HARD") => (pc = "done" /\ exitCode = 1))
  /\ []((stageResult["Validate"] = "SUCCEEDED" \/ "Install-Agents" \in
            { started[n] : n \in 1..Len(started) })
          => /\ checks_run = ValidationChecks
             /\ target_connection \in { "ssh", "winrm" }
             /\ target_os \in { "linux", "windows", "macos", "unknown" })

\* all six checks passed on a target detected over the connection, and
\* agent installation has started
C37_Witness ==
  /\ pc = "s2_wazuh-agent" /\ checks_run = ValidationChecks
  /\ target_connection = "ssh" /\ target_os = "macos"

====
